---- MODULE Spec2Model ----
(***************************************************************************)
(* A model of the rusty-ray renderer: the bounding volume hierarchy, the   *)
(* scene's nearest-hit query, the ray_color integrator, the id-issuing     *)
(* collections and the bounding-box algebra.                               *)
(*                                                                         *)
(* Numbers.  The program computes in f64.  The model computes in integers: *)
(* lengths, coordinates and ray parameters t are counted in thousandths of *)
(* a scene unit (so the program's 0.001 is 1 and a radius of 0.5 is 500),  *)
(* ray directions have components in {-1, 0, 1}, and the three IEEE values *)
(* the slab test relies on are kept as the sentinels INFINITY,             *)
(* NEG_INFINITY and NAN with the IEEE rules for product and comparison.    *)
(* sqrt and the quotient by a = |dir|^2 round down to the grid; both are   *)
(* exact whenever the real result lies on the grid.                        *)
(***************************************************************************)
EXTENDS Integers, Sequences, FiniteSets, TLC

VARIABLES
    objects,      \* Scene.objects: the sequence of objects, in insertion order
    background,   \* Scene.background_func: the name of the function given to Scene::new
    bvh,          \* Scene.bvh: None or Some(Bvh)
    last,         \* the latest Scene.hit call: its arguments, candidates and result
    materials,    \* Resources.materials
    textures,     \* Resources.textures
    returned,     \* the ids handed out so far, each with the item it was returned for
    boxes,        \* the boxes a, b, c an Aabb computation works on
    rc,           \* the ray_color call in progress: its frames and counters
    out,          \* the latest call of a function that changes nothing: its arguments and result
    rng,          \* THREAD_RNG of each thread, with the values the thread has drawn from it
    walk,         \* the Bvh::hit call in progress: its stack and the ids recorded so far
    render        \* Camera::render: its position, its image, the pixels written and the callbacks made

vars == <<objects, background, bvh, last, materials, textures, returned, boxes, rc, out, rng, walk, render>>

----------------------------------------------------------------------------
(* Option<T> *)

None == <<>>

Some(x) == <<x>>

IsSome(o) == o # None

Unwrap(o) == o[1]

----------------------------------------------------------------------------
(* f64 values the integers do not hold *)

INFINITY == 2000000000

NEG_INFINITY == 0 - INFINITY

NAN == 2000000001

\* a < b in f64: false as soon as one side is NaN
FLt(a, b) == a # NAN /\ b # NAN /\ a < b

\* a <= b in f64
FLe(a, b) == a # NAN /\ b # NAN /\ a <= b

\* a > b in f64
FGt(a, b) == a # NAN /\ b # NAN /\ a > b

\* 1.0 / d for a direction component d in {-1, 0, 1}; 1.0 / 0.0 is +inf
Recip(d) == IF d = 0 THEN INFINITY ELSE d

\* x * inv for a finite x and inv = Recip(d): x * (+inf) is +inf, -inf, or NaN when x = 0
FMul(x, inv) ==
    IF inv = INFINITY
    THEN IF x > 0 THEN INFINITY ELSE IF x < 0 THEN NEG_INFINITY ELSE NAN
    ELSE x * inv

\* f64::min and f64::max on values that are not NaN
Min(a, b) == IF a < b THEN a ELSE b

Max(a, b) == IF a > b THEN a ELSE b

RECURSIVE SqrtSearch(_, _, _)
\* the largest r in lo..hi with r * r <= n
SqrtSearch(n, lo, hi) ==
    IF lo >= hi THEN lo
    ELSE LET mid == (lo + hi + 1) \div 2
         IN  IF mid * mid <= n THEN SqrtSearch(n, mid, hi)
             ELSE SqrtSearch(n, lo, mid - 1)

\* f64::sqrt of n >= 0, rounded down to the grid
Sqrt(n) == SqrtSearch(n, 0, 46340)

----------------------------------------------------------------------------
(* Vec3: <<x, y, z>>; the program's index 0..2 is the tuple's 1..3 *)

Vec3(x, y, z) == <<x, y, z>>

VAdd(a, b) == <<a[1] + b[1], a[2] + b[2], a[3] + b[3]>>

VSub(a, b) == <<a[1] - b[1], a[2] - b[2], a[3] - b[3]>>

VScale(a, k) == <<a[1] * k, a[2] * k, a[3] * k>>

VNeg(a) == <<0 - a[1], 0 - a[2], 0 - a[3]>>

Dot(a, b) == a[1] * b[1] + a[2] * b[2] + a[3] * b[3]

LenSq(a) == Dot(a, a)

\* Vec3 * Vec3, componentwise
VMul(a, b) == <<a[1] * b[1], a[2] * b[2], a[3] * b[3]>>

----------------------------------------------------------------------------
(* Ray *)

Ray(orig, dir) == [orig |-> orig, dir |-> dir]

\* Ray::at
At(r, t) == VAdd(r.orig, VScale(r.dir, t))

----------------------------------------------------------------------------
(* Interval and Aabb *)

Interval(start, end) == [start |-> start, end |-> end]

IntervalEMPTY == Interval(INFINITY, NEG_INFINITY)

\* Interval::contains with the end left out
ContainsHalfOpen(self, value) == FLe(self.start, value) /\ FLt(value, self.end)

\* Interval::contains
Contains(self, value) == FLe(self.start, value) /\ FLe(value, self.end)

Aabb(x, y, z) == [x |-> x, y |-> y, z |-> z]

AabbEMPTY == Aabb(IntervalEMPTY, IntervalEMPTY, IntervalEMPTY)

\* Aabb::new
AabbNew(min, max) ==
    Aabb(Interval(min[1], max[1]), Interval(min[2], max[2]), Interval(min[3], max[3]))

\* Aabb::component and Index<usize> for Aabb
Component(bb, axis) == IF axis = 0 THEN bb.x ELSE IF axis = 1 THEN bb.y ELSE bb.z

\* a - b in f64 where either side may be infinite
FSub(a, b) ==
    IF a = NAN \/ b = NAN THEN NAN
    ELSE IF a = INFINITY THEN (IF b = INFINITY THEN NAN ELSE INFINITY)
    ELSE IF a = NEG_INFINITY THEN (IF b = NEG_INFINITY THEN NAN ELSE NEG_INFINITY)
    ELSE IF b = INFINITY THEN NEG_INFINITY
    ELSE IF b = NEG_INFINITY THEN INFINITY
    ELSE a - b

\* Aabb::grow leaving the starts of self as they are
GrowKeepingStarts(self, other) ==
    Aabb(Interval(self.x.start, Max(self.x.end, other.x.end)),
         Interval(self.y.start, Max(self.y.end, other.y.end)),
         Interval(self.z.start, Max(self.z.end, other.z.end)))

\* Aabb::grow, as the value self holds afterwards
Grow(self, other) ==
    Aabb(Interval(Min(self.x.start, other.x.start), Max(self.x.end, other.x.end)),
         Interval(Min(self.y.start, other.y.start), Max(self.y.end, other.y.end)),
         Interval(Min(self.z.start, other.z.start), Max(self.z.end, other.z.end)))

\* Aabb::largest_axis comparing with >= where the code has >
LargestAxisTiesFirst(self) ==
    LET x_extent == FSub(self.x.end, self.x.start)
        y_extent == FSub(self.y.end, self.y.start)
        z_extent == FSub(self.z.end, self.z.start)
    IN  IF x_extent >= y_extent
        THEN IF x_extent >= z_extent THEN 0 ELSE 2
        ELSE IF y_extent >= z_extent THEN 1 ELSE 2

\* Aabb::largest_axis
LargestAxis(self) ==
    LET x_extent == FSub(self.x.end, self.x.start)
        y_extent == FSub(self.y.end, self.y.start)
        z_extent == FSub(self.z.end, self.z.start)
    IN  IF FGt(x_extent, y_extent)
        THEN IF FGt(x_extent, z_extent) THEN 0 ELSE 2
        ELSE IF FGt(y_extent, z_extent) THEN 1 ELSE 2

RECURSIVE AabbHitFromUnordered(_, _, _, _)
\* the loop of Aabb::hit without the swap of t0 and t1
AabbHitFromUnordered(self, ray, time, idx) ==
    IF idx = 3 THEN TRUE
    ELSE LET axis  == Component(self, idx)
             inv_d == Recip(ray.dir[idx + 1])
             a0    == FMul(axis.start - ray.orig[idx + 1], inv_d)
             a1    == FMul(axis.end - ray.orig[idx + 1], inv_d)
             t0    == a0
             t1    == a1
             start == IF FGt(t0, time.start) THEN t0 ELSE time.start
             end   == IF FLt(t1, time.end) THEN t1 ELSE time.end
         IN  IF FLe(end, start) THEN FALSE
             ELSE AabbHitFromUnordered(self, ray, Interval(start, end), idx + 1)

\* Aabb::hit without the swap
AabbHitUnordered(self, ray, time) == AabbHitFromUnordered(self, ray, time, 0)

RECURSIVE AabbHitFrom(_, _, _, _)
\* the loop of Aabb::hit from axis idx on, with the interval narrowed so far
AabbHitFrom(self, ray, time, idx) ==
    IF idx = 3 THEN TRUE
    ELSE LET axis  == Component(self, idx)
             inv_d == Recip(ray.dir[idx + 1])
             a0    == FMul(axis.start - ray.orig[idx + 1], inv_d)
             a1    == FMul(axis.end - ray.orig[idx + 1], inv_d)
             t0    == IF FLt(a1, a0) THEN a1 ELSE a0
             t1    == IF FLt(a1, a0) THEN a0 ELSE a1
             start == IF FGt(t0, time.start) THEN t0 ELSE time.start
             end   == IF FLt(t1, time.end) THEN t1 ELSE time.end
         IN  IF FLe(end, start) THEN FALSE
             ELSE AabbHitFrom(self, ray, Interval(start, end), idx + 1)

\* Aabb::hit
AabbHit(self, ray, time) == AabbHitFrom(self, ray, time, 0)

----------------------------------------------------------------------------
(* SphereObject *)

\* SphereObject::calculate_aabb
CalculateAabb(center, radius) ==
    AabbNew(VSub(center, Vec3(radius, radius, radius)),
            VAdd(center, Vec3(radius, radius, radius)))

\* SphereObject::new
SphereNew(center, radius, material) ==
    [center |-> center, radius |-> radius, material |-> material,
     bounding_box |-> CalculateAabb(center, radius)]

\* SphereObject::get_sphere_uv for a unit vector p given in thousandths.  u and v
\* are rounded down to quarters: v = acos(-y) / pi and u = (atan2(-z, x) + pi) / 2pi
\* are decided by the signs of x, y, z and by 2 y^2 against 1.
GetSphereUv(p) ==
    LET v == IF p[2] >= 1000 THEN 4
             ELSE IF p[2] > 0 THEN (IF 2 * p[2] * p[2] > 1000000 THEN 3 ELSE 2)
             ELSE IF p[2] = 0 THEN 2
             ELSE IF 2 * p[2] * p[2] >= 1000000 THEN 0 ELSE 1
        u == IF p[3] > 0 THEN (IF p[1] < 0 THEN 0 ELSE 1)
             ELSE IF p[3] < 0 THEN (IF p[1] > 0 THEN 2 ELSE 3)
             ELSE IF p[1] < 0 THEN 0 ELSE 2
    IN  <<u, v>>

\* Intersection::face_normal keeping the outward normal on either side
FaceNormalOutward(ray, outward_normal) ==
    LET front_face == Dot(ray.dir, outward_normal) < 0
    IN  <<front_face, outward_normal>>

\* Intersection::face_normal
FaceNormal(ray, outward_normal) ==
    LET front_face == Dot(ray.dir, outward_normal) < 0
    IN  <<front_face, IF front_face THEN outward_normal ELSE VNeg(outward_normal)>>

\* the Intersection record SphereObject::hit builds for the root t
SphereRecord(self, r, t) ==
    LET point == At(r, t)
        d     == VSub(point, self.center)
        outward_normal == <<(d[1] * 1000) \div self.radius,
                            (d[2] * 1000) \div self.radius,
                            (d[3] * 1000) \div self.radius>>
        uv == GetSphereUv(outward_normal)
        fn == FaceNormal(r, outward_normal)
    IN  [point |-> point, normal |-> fn[2], front_face |-> fn[1],
         material |-> self.material, t |-> t, u |-> uv[1], v |-> uv[2]]

\* SphereObject::hit taking a root that equals a bound of the interval
SphereHitClosed(self, r, time) ==
    LET oc == VSub(self.center, r.orig)
        a  == LenSq(r.dir)
        h  == Dot(oc, r.dir)
        c  == LenSq(oc) - self.radius * self.radius
        discriminant == h * h - a * c
    IN  IF discriminant < 0 THEN None
        ELSE LET sqrt_d == Sqrt(discriminant)
                 t1 == (h - sqrt_d) \div a
                 t2 == (h + sqrt_d) \div a
             IN  IF ~(t1 < time.start \/ time.end < t1)
                 THEN Some(SphereRecord(self, r, t1))
                 ELSE IF ~(t2 < time.start \/ time.end < t2)
                 THEN Some(SphereRecord(self, r, t2))
                 ELSE None

\* Hittable::hit for SphereObject
SphereHit(self, r, time) ==
    LET oc == VSub(self.center, r.orig)
        a  == LenSq(r.dir)
        h  == Dot(oc, r.dir)
        c  == LenSq(oc) - self.radius * self.radius
        discriminant == h * h - a * c
    IN  IF discriminant < 0 THEN None
        ELSE LET sqrt_d == Sqrt(discriminant)
                 t1 == (h - sqrt_d) \div a
                 t2 == (h + sqrt_d) \div a
             IN  IF ~(t1 <= time.start \/ time.end <= t1)
                 THEN Some(SphereRecord(self, r, t1))
                 ELSE IF ~(t2 <= time.start \/ time.end <= t2)
                 THEN Some(SphereRecord(self, r, t2))
                 ELSE None

\* Hittable::bounding_box for SphereObject
BoundingBox(self) == self.bounding_box

----------------------------------------------------------------------------
(* Bvh.  NodeId and ObjectId are the program's 0-based indices; nodes[id + 1] *)
(* is the node with NodeId id.                                                *)

Leaf(object_id) == [kind |-> "Leaf", object |-> object_id]

Branch(left, right, bounding_box) ==
    [kind |-> "Branch", left |-> left, right |-> right, bounding_box |-> bounding_box]

\* Index<NodeId> for Bvh
NodeAt(self, node_id) == self.nodes[node_id + 1]

\* the key build_tree sorts by: the start of the item's own box along axis
SortKey(item, axis) == Component(item[2], axis).start

RECURSIVE InsertByKey(_, _, _)
\* sorted with item put after every element whose key is <= its own
InsertByKey(sorted, item, axis) ==
    IF sorted = <<>> THEN <<item>>
    ELSE IF SortKey(sorted[Len(sorted)], axis) <= SortKey(item, axis)
         THEN Append(sorted, item)
         ELSE Append(InsertByKey(SubSeq(sorted, 1, Len(sorted) - 1), item, axis),
                     sorted[Len(sorted)])

RECURSIVE SortByAxis(_, _)
\* slice::sort_by (a stable sort) on the start along axis
SortByAxis(items, axis) ==
    IF items = <<>> THEN <<>>
    ELSE InsertByKey(SortByAxis(SubSeq(items, 1, Len(items) - 1), axis),
                     items[Len(items)], axis)

\* the loop growing bounding_box by the first box of items alone
GrowAllFirstOnly(bounding_box, items) ==
    IF items = <<>> THEN bounding_box ELSE Grow(bounding_box, items[1][2])

RECURSIVE GrowAll(_, _)
\* the loop that grows bounding_box by every box of items
GrowAll(bounding_box, items) ==
    IF items = <<>> THEN bounding_box
    ELSE GrowAll(Grow(bounding_box, items[1][2]), SubSeq(items, 2, Len(items)))

RECURSIVE BuildTreeLeftHeavy(_, _, _, _)
\* Bvh::build_tree splitting at the middle rounded up
BuildTreeLeftHeavy(nodes, objs, start, end) ==
    LET span == end - start
    IN  IF span = 1
        THEN [nodes |-> Append(nodes, Leaf(objs[start + 1][1])),
              objects |-> objs, id |-> Len(nodes)]
        ELSE LET range == SubSeq(objs, start + 1, end)
                 bounding_box == GrowAll(AabbEMPTY, range)
                 axis == LargestAxis(bounding_box)
                 sorted == SubSeq(objs, 1, start) \o SortByAxis(range, axis)
                              \o SubSeq(objs, end + 1, Len(objs))
                 mid == start + (span + 1) \div 2
                 l == BuildTreeLeftHeavy(nodes, sorted, start, mid)
                 r == BuildTreeLeftHeavy(l.nodes, l.objects, mid, end)
             IN  [nodes |-> Append(r.nodes, Branch(l.id, r.id, bounding_box)),
                  objects |-> r.objects, id |-> Len(r.nodes)]

RECURSIVE BuildTree(_, _, _, _)
\* Bvh::build_tree on objects[start..end]: the nodes and the (re-sorted) objects
\* it leaves, and the id of the node it created
BuildTree(nodes, objs, start, end) ==
    LET span == end - start
    IN  IF span = 1
        THEN [nodes |-> Append(nodes, Leaf(objs[start + 1][1])),
              objects |-> objs, id |-> Len(nodes)]
        ELSE LET range == SubSeq(objs, start + 1, end)
                 bounding_box == GrowAll(AabbEMPTY, range)
                 axis == LargestAxis(bounding_box)
                 sorted == SubSeq(objs, 1, start) \o SortByAxis(range, axis)
                              \o SubSeq(objs, end + 1, Len(objs))
                 mid == start + span \div 2
                 l == BuildTree(nodes, sorted, start, mid)
                 r == BuildTree(l.nodes, l.objects, mid, end)
             IN  [nodes |-> Append(r.nodes, Branch(l.id, r.id, bounding_box)),
                  objects |-> r.objects, id |-> Len(r.nodes)]

\* Bvh::new taking the first node for the root
BvhNewRootFirst(objs) ==
    IF objs # <<>>
    THEN LET b == BuildTree(<<>>, objs, 0, Len(objs))
         IN  [nodes |-> b.nodes, root |-> Some(0)]
    ELSE [nodes |-> <<>>, root |-> None]

\* Bvh::new
BvhNew(objs) ==
    IF objs # <<>>
    THEN LET b == BuildTree(<<>>, objs, 0, Len(objs))
         IN  [nodes |-> b.nodes, root |-> Some(b.id)]
    ELSE [nodes |-> <<>>, root |-> None]

RECURSIVE BvhWalkLeftOnly(_, _, _, _, _)
\* the traversal with a branch pushing its left child alone
BvhWalkLeftOnly(self, stack, hit_objects, ray, time) ==
    IF stack = <<>> THEN hit_objects
    ELSE LET node == NodeAt(self, stack[Len(stack)])
             rest == SubSeq(stack, 1, Len(stack) - 1)
         IN  IF node.kind = "Leaf"
             THEN BvhWalkLeftOnly(self, rest, Append(hit_objects, node.object), ray, time)
             ELSE IF AabbHit(node.bounding_box, ray, time)
                  THEN BvhWalkLeftOnly(self, rest \o <<node.left>>, hit_objects, ray, time)
                  ELSE BvhWalkLeftOnly(self, rest, hit_objects, ray, time)

RECURSIVE BvhWalk(_, _, _, _, _)
\* the while loop of Bvh::hit: pops the last node of stack until it is empty
BvhWalk(self, stack, hit_objects, ray, time) ==
    IF stack = <<>> THEN hit_objects
    ELSE LET node == NodeAt(self, stack[Len(stack)])
             rest == SubSeq(stack, 1, Len(stack) - 1)
         IN  IF node.kind = "Leaf"
             THEN BvhWalk(self, rest, Append(hit_objects, node.object), ray, time)
             ELSE IF AabbHit(node.bounding_box, ray, time)
                  THEN BvhWalk(self, rest \o <<node.left, node.right>>,
                               hit_objects, ray, time)
                  ELSE BvhWalk(self, rest, hit_objects, ray, time)

\* Bvh::hit without its test for an empty candidate list
BvhHitNoEmptyCheck(self, ray, time) ==
    Some(BvhWalk(self, IF self.root = None THEN <<>> ELSE <<Unwrap(self.root)>>,
                 <<>>, ray, time))

\* Bvh::hit
BvhHit(self, ray, time) ==
    IF self.root = None THEN None
    ELSE LET hit_objects == BvhWalk(self, <<Unwrap(self.root)>>, <<>>, ray, time)
         IN  IF hit_objects = <<>> THEN None ELSE Some(hit_objects)

----------------------------------------------------------------------------
(* Scene *)

\* Index<ObjectId> for Scene
ObjectAt(objs, id) == objs[id + 1]

RECURSIVE HitLoopNoShrink(_, _, _, _)
\* the loop with the interval left as it was given: every hit replaces the closest
HitLoopNoShrink(todo, ray, time, closest) ==
    IF todo = <<>> THEN closest
    ELSE LET intersection == SphereHit(todo[1], ray, time)
             rest == SubSeq(todo, 2, Len(todo))
         IN  IF IsSome(intersection)
             THEN HitLoopNoShrink(rest, ray, time, intersection)
             ELSE HitLoopNoShrink(rest, ray, time, closest)

RECURSIVE HitLoop(_, _, _, _)
\* the loop hit_fast and hit_slow share: tests the objects of todo in order, each
\* against the interval shrunk to the closest hit so far
HitLoop(todo, ray, time, closest) ==
    IF todo = <<>> THEN closest
    ELSE LET intersection == SphereHit(todo[1], ray, time)
             rest == SubSeq(todo, 2, Len(todo))
         IN  IF IsSome(intersection)
             THEN HitLoop(rest, ray, Interval(time.start, Unwrap(intersection).t),
                          intersection)
             ELSE HitLoop(rest, ray, time, closest)

\* Scene::hit_fast
HitFast(objs, tree, ray, time) ==
    LET objects_to_check == BvhHit(Unwrap(tree), ray, time)
    IN  IF objects_to_check = None THEN None
        ELSE HitLoop([i \in 1..Len(Unwrap(objects_to_check)) |->
                          ObjectAt(objs, Unwrap(objects_to_check)[i])],
                     ray, time, None)

\* Scene::hit_slow
HitSlow(objs, ray, time) == HitLoop(objs, ray, time, None)

\* Scene::hit
SceneHit(objs, tree, ray, time) ==
    IF IsSome(tree) THEN HitFast(objs, tree, ray, time) ELSE HitSlow(objs, ray, time)

\* the ids whose exact geometry test Scene::hit runs, in the order it runs them
Tested(objs, tree, ray, time) ==
    IF IsSome(tree)
    THEN LET objects_to_check == BvhHit(Unwrap(tree), ray, time)
         IN  IF objects_to_check = None THEN <<>> ELSE Unwrap(objects_to_check)
    ELSE [i \in 1..Len(objs) |-> i - 1]

----------------------------------------------------------------------------
(* ImageBuffer and ImageTexture.  u and v are given in quarters, as            *)
(* get_sphere_uv returns them here; a channel c stands for the f64 c / 255.    *)

\* ImageBuffer::with_data
ImageBuffer(width, height, data) == [width |-> width, height |-> height, data |-> data]

\* Index<(u32, u32)> for ImageBuffer: the three bytes from idx on, or a panic
\* when the slice idx..idx + 3 runs past the data
ImageIndex(image, x, y) ==
    LET idx == (y * image.width + x) * 3
    IN  IF idx + 3 > Len(image.data)
        THEN [panic |-> TRUE, x |-> x, y |-> y, color |-> <<>>]
        ELSE [panic |-> FALSE, x |-> x, y |-> y,
              color |-> SubSeq(image.data, idx + 1, idx + 3)]

\* ImageTexture::color: `as u32` truncates width * u and height * v
ImageTextureColor(image, u, v) ==
    LET x == (image.width * u) \div 4
        y == (image.height * v) \div 4
    IN  ImageIndex(image, x, y)

\* ImageTexture::new
ImageTexture(image) == [kind |-> "Image", image |-> image]

\* what a call returns that panicked on its way
PANIC == <<"panic", "panic">>

----------------------------------------------------------------------------
(* Colors, textures and materials.  A Color is a Vec3; the model's colors have *)
(* whole components, so that a product of colors is exact.                     *)

\* Vec3::ZERO
ZERO == Vec3(0, 0, 0)

\* Color::WHITE
WHITE == Vec3(1, 1, 1)

\* SolidTexture::new
SolidTexture(color) == [kind |-> "Solid", color |-> color]

\* Texture::color; a SolidTexture ignores u and v, an ImageTexture reads its
\* pixel and panics when the image does
TextureColor(texture, u, v) ==
    IF texture.kind = "Image"
    THEN LET pixel == ImageTextureColor(texture.image, u, v)
         IN  IF pixel.panic THEN PANIC ELSE pixel.color
    ELSE texture.color

\* LambertianMaterial::new
LambertianMaterial(albedo) == [kind |-> "Lambertian", albedo |-> albedo, normal_map |-> None]

\* MetalMaterial::new; fuzz in thousandths
MetalMaterial(albedo, fuzz) ==
    [kind |-> "Metal", albedo |-> albedo, fuzz |-> fuzz, normal_map |-> None]

\* DielectricMaterial::new; refraction_index in thousandths
DielectricMaterial(refraction_index) ==
    [kind |-> "Dielectric", refraction_index |-> refraction_index]

\* DiffuseLightMaterial::new
DiffuseLightMaterial(texture) == [kind |-> "DiffuseLight", texture |-> texture]

\* Index<TextureId> for Resources
TextureAt(txs, id) == txs[id + 1]

\* Index<MaterialId> for Resources
MaterialAt(mats, id) == mats[id + 1]

\* Material::emit: the texture's color for a DiffuseLightMaterial, the trait's
\* default Color::ZERO for the others
Emit(material, txs, hit) ==
    IF material.kind = "DiffuseLight"
    THEN TextureColor(TextureAt(txs, material.texture), hit.u, hit.v)
    ELSE ZERO

\* Material::scatter.  The direction of the scattered ray comes from the random
\* generator and from unit, reflect and refract in f64; the model takes it as the
\* input random_dir, any direction of the grid.  A DiffuseLightMaterial keeps the
\* trait's default, None.
Scatter(material, txs, ray, hit, random_dir) ==
    IF material.kind = "Lambertian"
    THEN LET albedo == TextureColor(TextureAt(txs, material.albedo), hit.u, hit.v)
         IN  IF albedo = PANIC THEN PANIC
             ELSE Some(<<Ray(hit.point, random_dir), albedo>>)
    ELSE IF material.kind = "Metal"
    THEN Some(<<Ray(hit.point, random_dir), material.albedo>>)
    ELSE IF material.kind = "Dielectric"
    THEN Some(<<Ray(hit.point, random_dir), WHITE>>)
    ELSE None

\* Scene::background: the function given to Scene::new, applied to dir
Background(name, dir) == IF name = "white" THEN WHITE ELSE dir

----------------------------------------------------------------------------
(* Random: a u64 is the sequence of its bits, the lowest first *)

\* the width of Random.state
WordBits == 64

\* k zero bits
Zeros(k) == [i \in 1..k |-> 0]

RECURSIVE BitsOf(_, _)
\* the lowest k bits of the number n
BitsOf(n, k) == IF k = 0 THEN <<>> ELSE <<n % 2>> \o BitsOf(n \div 2, k - 1)

\* the u64 with the value n, for n below 2^16
FromU16(n) == BitsOf(n, 16) \o Zeros(WordBits - 16)

\* x << k and x >> k on u64
Shl(x, k) == Zeros(k) \o SubSeq(x, 1, WordBits - k)

Shr(x, k) == SubSeq(x, k + 1, WordBits) \o Zeros(k)

RECURSIVE XorFrom(_, _, _)
\* the bits of x ^ y from bit i up
XorFrom(x, y, i) ==
    IF i > WordBits THEN <<>> ELSE <<(x[i] + y[i]) % 2>> \o XorFrom(x, y, i + 1)

\* x ^ y on u64
Xor(x, y) == XorFrom(x, y, 1)

RECURSIVE AddFrom(_, _, _, _)
\* the bits of x + y from bit i up, given the carry into bit i
AddFrom(x, y, i, carry) ==
    IF i > WordBits THEN <<>>
    ELSE <<(x[i] + y[i] + carry) % 2>> \o AddFrom(x, y, i + 1, (x[i] + y[i] + carry) \div 2)

\* x + y on u64, wrapping
WrappingAdd(x, y) == AddFrom(x, y, 1, 0)

\* the seed 0xdeadbeef of THREAD_RNG
ThreadRngSeed == Xor(Shl(FromU16(57005), 16), FromU16(48879))

\* Random::jenkins_hash
JenkinsHash(input) ==
    LET a == WrappingAdd(input, Shl(input, 10))
        b == Xor(a, Shr(a, 6))
        c == WrappingAdd(b, Shl(b, 3))
        d == Xor(c, Shr(c, 11))
    IN  WrappingAdd(d, Shl(d, 15))

\* Random::new
RandomNew(seed) == [state |-> JenkinsHash(seed)]

\* Random::xor_shift64: the new state, which is also the value returned
XorShift64(state) ==
    LET a == Xor(state, Shl(state, 13))
        b == Xor(a, Shr(a, 7))
    IN  Xor(b, Shl(b, 17))

\* Random::random_f64: the 52 mantissa bits of the value returned
RandomF64Bits(rand) == Shr(rand, 12)

----------------------------------------------------------------------------
(* The scenes, rays and intervals the model draws its inputs from *)

MaxObjects == 3

\* the unit sphere at the origin, with the bounding box [-1,1]^3
SphereAtOrigin == SphereNew(Vec3(0, 0, 0), 1000, 0)

\* the unit sphere at (6,6,6), with the bounding box [5,7]^3
SphereAtSix == SphereNew(Vec3(6000, 6000, 6000), 1000, 1)

\* the unit sphere at (2,0,0), which touches SphereAtOrigin at (1,0,0)
SphereTouching == SphereNew(Vec3(2000, 0, 0), 1000, 2)

\* the sphere of radius 0.5 at (0,0,-1)
SphereSmall == SphereNew(Vec3(0, 0, 0 - 1000), 500, 3)

\* the spheres a scene is built from
Spheres == {SphereAtOrigin, SphereAtSix, SphereTouching, SphereSmall}

\* from (6,6,0) up the z axis: aimed at SphereAtSix and at no other sphere
RayAtSix == Ray(Vec3(6000, 6000, 0), Vec3(0, 0, 1))

\* along the line x = 1, z = 0, which touches SphereAtOrigin and SphereTouching
\* in the one point (1,0,0)
RayGrazing == Ray(Vec3(1000, 0 - 3000, 0), Vec3(0, 1, 0))

\* from the origin down the z axis
RayDownZ == Ray(Vec3(0, 0, 0), Vec3(0, 0, 0 - 1))

\* along the x axis, from either side
RayAlongX == Ray(Vec3(0 - 3000, 0, 0), Vec3(1, 0, 0))

RayBackX == Ray(Vec3(5000, 0, 0), Vec3(0 - 1, 0, 0))

\* along the diagonal x = y = z
RayDiagonal == Ray(Vec3(0 - 3000, 0 - 3000, 0 - 3000), Vec3(1, 1, 1))

\* the rays of the queries
Rays == {RayAtSix, RayGrazing, RayDownZ, RayAlongX, RayBackX, RayDiagonal}

\* interval!(0.001, INFINITY), the interval ray_color queries with
RayColorInterval == Interval(1, INFINITY)

\* the intervals of the queries: ray_color's, and one with a finite end
Intervals == { RayColorInterval, Interval(0, 4500) }

MaxMaterials == 3

MaxTextures == 2

MaxDepth == 3

\* the objects, materials and textures added where only the ids matter
IdSpheres == {SphereAtOrigin, SphereSmall}

IdMaterials == {LambertianMaterial(0), DiffuseLightMaterial(1)}

IdTextures == {SolidTexture(Vec3(1, 2, 0)), SolidTexture(Vec3(3, 3, 3))}

\* the functions given to Scene::new: a constant, and the direction itself
Backgrounds == {"white", "direction"}

\* the directions a scattered ray takes
ScatterDirs == {Vec3(0, 0, 1), Vec3(1, 0, 0), Vec3(0 - 1, 0 - 1, 0 - 1)}

\* the scenes a render starts from: the spheres in the order they were added
RenderScenes ==
    { <<SphereAtOrigin, SphereAtSix>>,
      <<SphereSmall, SphereTouching, SphereAtSix>> }

\* the materials of a render, in the order they were added: the sphere with
\* material id i has the i-th of them
RenderMaterials ==
    <<LambertianMaterial(0), DiffuseLightMaterial(1),
      MetalMaterial(Vec3(1, 0, 1), 0), DielectricMaterial(1500)>>

\* the textures of a render, in the order they were added; in the second the
\* light's texture has a negative component
RenderTextures ==
    { <<SolidTexture(Vec3(1, 2, 0)), SolidTexture(Vec3(3, 3, 3))>>,
      <<SolidTexture(Vec3(1, 2, 0)), SolidTexture(Vec3(0, 0 - 1, 0))>> }

\* a box whose starts lie beyond its ends, as Aabb::new builds from min > max
BoxInverted == AabbNew(<<1000, 1000, 1000>>, <<-1000, -1000, -1000>>)

\* the boxes Aabb::grow is applied to
AabbBoxes ==
    {AabbEMPTY, BoxInverted} \cup {BoundingBox(sphere) : sphere \in Spheres}

\* boxes longest along y and along z
BoxTall == AabbNew(<<-1000, -3000, -1000>>, <<1000, 1000, 1000>>)

BoxDeep == AabbNew(<<-1000, -1000, -3000>>, <<1000, 1000, 1000>>)

\* the boxes Aabb::largest_axis is asked about: the boxes above and the unions
\* of two of them
AxisBoxes == {Grow(a, b) : a, b \in AabbBoxes \cup {BoxTall, BoxDeep}}

\* the intervals and values Interval::contains is asked about
ContainsIntervals ==
    Intervals \cup {IntervalEMPTY, Interval(1000, 1000), Interval(2000, -2000),
                    Interval(NEG_INFINITY, 0)}

ContainsValues == {NEG_INFINITY, -2000, -1, 0, 1, 1000, 2000, 4500, 4501, INFINITY, NAN}

\* the intervals SphereObject::hit is called with: those of the queries, and
\* intervals that begin or end at a root of RayAlongX
HitIntervals ==
    Intervals \cup {Interval(2000, 4000), Interval(2000, 6000), Interval(0, 2000),
                    Interval(3000, 3500), Interval(0, 1000)}

MaxWorkers == 2

MaxDraws == 10

\* the threads that trace samples
Workers == 1..MaxWorkers

\* THREAD_RNG as each thread finds it at its first use, and nothing drawn yet
RngInit == [w \in Workers |-> [random |-> RandomNew(ThreadRngSeed), drawn |-> <<>>]]

\* the images of the image textures: 2 x 2 and 3 x 1 pixels, every byte different
Images ==
    { ImageBuffer(2, 2, <<0, 10, 20, 30, 40, 50, 60, 70, 80, 90, 100, 255>>),
      ImageBuffer(3, 1, <<1, 2, 3, 4, 5, 6, 7, 8, 9>>) }

\* the values of u and of v, in quarters: 0, 0.25, 0.5, 0.75 and 1
ImageUvs == 0..4

\* straight down onto the top of SphereAtOrigin, where v = 1
RayDownY == Ray(Vec3(0, 3000, 0), Vec3(0, 0 - 1, 0))

\* the hits scatter and emit are called with
CallHits ==
    {Unwrap(h) : h \in {hit \in {SphereHit(sphere, r, RayColorInterval) :
                                    sphere \in Spheres, r \in Rays \cup {RayDownY}} :
                          IsSome(hit)}}

\* the materials scatter and emit are called on
CallMaterials == {RenderMaterials[i] : i \in 1..Len(RenderMaterials)}

\* the textures of the resources they are called with: solid ones, and images
CallTextures ==
    RenderTextures \cup {<<ImageTexture(image), ImageTexture(image)>> : image \in Images}

\* no Bvh::hit call made yet
WalkIdle == [pc |-> "idle", ray |-> None, time |-> None, stack |-> <<>>,
             hit_objects |-> <<>>, box_tests |-> 0, result |-> None]

\* the scenes whose BVH is traversed: none, one, two and three objects
WalkScenes == RenderScenes \cup {<<>>, <<SphereTouching>>}

\* the boxes Aabb::hit is asked about: those of the spheres, two oblong ones,
\* and the box of a branch over two spheres
HitBoxes ==
    {BoundingBox(sphere) : sphere \in Spheres}
        \cup {BoxTall, BoxDeep, Grow(BoundingBox(SphereAtOrigin), BoundingBox(SphereTouching))}

\* the fields of a Camera that render reads for its loops
Camera(image_width, image_height, sample_count) ==
    [image_width |-> image_width, image_height |-> image_height,
     sample_count |-> sample_count]

\* the cameras that render: two rows of two pixels, one column, one row without
\* samples, and an image without rows
Cameras ==
    { Camera(2, 2, 2), Camera(1, 3, 1), Camera(2, 1, 0), Camera(3, 0, 1) }

\* what ray_color returns for the ray of a sample: one of the colors of the
\* renders above, or a panic on its way through an ImageTexture
SampleColors == { Vec3(1, 2, 0), Vec3(0, 0 - 1, 0), ZERO, PANIC }

\* no render has been called
RenderIdle ==
    [pc |-> "idle", camera |-> None, image |-> None, y |-> 0, x |-> 0, sample |-> 0,
     color |-> ZERO, written |-> <<>>, callbacks |-> <<>>]

\* no ray_color call made yet
RcIdle == [call |-> None, frames |-> <<>>, ret |-> None, queries |-> 0, depth |-> 0]

----------------------------------------------------------------------------
(* Scene and Resources: the operations *)

\* Scene::build_bvh
BuildBvh ==
    /\ bvh' = Some(BvhNew([i \in 1..Len(objects) |->
                              <<i - 1, BoundingBox(objects[i])>>]))
    /\ last' = None
    /\ UNCHANGED <<objects, background, materials, textures, returned, boxes, rc, out, rng, walk, render>>

\* Scene::add dropping the BVH it finds
SceneAddInvalidating(object) ==
    /\ Len(objects) < MaxObjects
    /\ LET id == Len(objects)
       IN  /\ objects' = Append(objects, object)
           /\ returned' = returned \cup {<<"object", id, object>>}
    /\ last' = None
    /\ bvh' = None
    /\ UNCHANGED <<background, materials, textures, boxes, rc, out, rng, walk, render>>

\* Scene::add; the ObjectId it returns is recorded with the object
SceneAdd(object) ==
    /\ Len(objects) < MaxObjects
    /\ LET id == Len(objects)
       IN  /\ objects' = Append(objects, object)
           /\ returned' = returned \cup {<<"object", id, object>>}
    /\ last' = None
    /\ UNCHANGED <<background, bvh, materials, textures, boxes, rc, out, rng, walk, render>>

\* a call of Scene::hit; last keeps what the call was given, tested and returned
\* until the scene is changed again
Hit(ray, time) ==
    /\ last' = Some([ray |-> ray, time |-> time,
                     tested |-> Tested(objects, bvh, ray, time),
                     result |-> SceneHit(objects, bvh, ray, time)])
    /\ UNCHANGED <<objects, background, bvh, materials, textures, returned, boxes, rc, out, rng, walk, render>>

\* Resources::add_material reading the length after the push
AddMaterialIdAfterPush(material) ==
    /\ Len(materials) < MaxMaterials
    /\ LET id == Len(materials) + 1
       IN  /\ materials' = Append(materials, material)
           /\ returned' = returned \cup {<<"material", id, material>>}
    /\ UNCHANGED <<objects, background, bvh, last, textures, boxes, rc, out, rng, walk, render>>

\* Resources::add_material; the MaterialId it returns is recorded with the material
AddMaterial(material) ==
    /\ Len(materials) < MaxMaterials
    /\ LET id == Len(materials)
       IN  /\ materials' = Append(materials, material)
           /\ returned' = returned \cup {<<"material", id, material>>}
    /\ UNCHANGED <<objects, background, bvh, last, textures, boxes, rc, out, rng, walk, render>>

\* Resources::add_texture; the TextureId it returns is recorded with the texture
AddTexture(texture) ==
    /\ Len(textures) < MaxTextures
    /\ LET id == Len(textures)
       IN  /\ textures' = Append(textures, texture)
           /\ returned' = returned \cup {<<"texture", id, texture>>}
    /\ UNCHANGED <<objects, background, bvh, last, materials, boxes, rc, out, rng, walk, render>>

----------------------------------------------------------------------------
(* Camera::ray_color.  rc.call is the call about to run its body, rc.frames   *)
(* the calls waiting for their recursive call (each with its emitted color    *)
(* and the attenuation), rc.ret the value the latest finished call returned,  *)
(* rc.queries the Scene::hit calls made since the outermost call began and    *)
(* rc.depth the depth the outermost call was given.                           *)

\* render calls ray_color(scene, resources, ray, max_bounces)
RayColorCall(ray, depth) ==
    /\ rc.call = None
    /\ rc.frames = <<>>
    /\ rc' = [call |-> Some([ray |-> ray, depth |-> depth]), frames |-> <<>>,
              ret |-> None, queries |-> 0, depth |-> depth]
    /\ UNCHANGED <<objects, background, bvh, last, materials, textures, returned, boxes, out, rng, walk, render>>

\* ray_color passing its own depth on to the recursive call
RayColorEnterSameDepth(random_dir) ==
    /\ IsSome(rc.call)
    /\ LET ray == Unwrap(rc.call).ray
           depth == Unwrap(rc.call).depth
           found == SceneHit(objects, bvh, ray, RayColorInterval)
       IN  IF depth = 0
           THEN rc' = [rc EXCEPT !.call = None, !.ret = Some(ZERO)]
           ELSE IF found = None
           THEN rc' = [rc EXCEPT !.call = None, !.queries = @ + 1,
                                 !.ret = Some(Background(background, ray.dir))]
           ELSE LET hit == Unwrap(found)
                    material == MaterialAt(materials, hit.material)
                    emitted == Emit(material, textures, hit)
                    scattered == Scatter(material, textures, ray, hit, random_dir)
                IN  IF scattered = None
                    THEN rc' = [rc EXCEPT !.call = None, !.queries = @ + 1,
                                          !.ret = Some(emitted)]
                    ELSE rc' = [rc EXCEPT
                                  !.call = Some([ray |-> Unwrap(scattered)[1],
                                                 depth |-> depth]),
                                  !.queries = @ + 1,
                                  !.frames = Append(@, [emitted |-> emitted,
                                                        attenuation |-> Unwrap(scattered)[2]])]
    /\ UNCHANGED <<objects, background, bvh, last, materials, textures, returned, boxes, out, rng, walk, render>>

\* ray_color evaluating the background at the ray's origin
RayColorEnterBackgroundAtOrigin(random_dir) ==
    /\ IsSome(rc.call)
    /\ LET ray == Unwrap(rc.call).ray
           depth == Unwrap(rc.call).depth
           found == SceneHit(objects, bvh, ray, RayColorInterval)
       IN  IF depth = 0
           THEN rc' = [rc EXCEPT !.call = None, !.ret = Some(ZERO)]
           ELSE IF found = None
           THEN rc' = [rc EXCEPT !.call = None, !.queries = @ + 1,
                                 !.ret = Some(Background(background, ray.orig))]
           ELSE LET hit == Unwrap(found)
                    material == MaterialAt(materials, hit.material)
                    emitted == Emit(material, textures, hit)
                    scattered == Scatter(material, textures, ray, hit, random_dir)
                IN  IF scattered = None
                    THEN rc' = [rc EXCEPT !.call = None, !.queries = @ + 1,
                                          !.ret = Some(emitted)]
                    ELSE rc' = [rc EXCEPT
                                  !.call = Some([ray |-> Unwrap(scattered)[1],
                                                 depth |-> depth - 1]),
                                  !.queries = @ + 1,
                                  !.frames = Append(@, [emitted |-> emitted,
                                                        attenuation |-> Unwrap(scattered)[2]])]
    /\ UNCHANGED <<objects, background, bvh, last, materials, textures, returned, boxes, out, rng, walk, render>>

\* ray_color dropping the BVH of the scene it queries
RayColorEnterDroppingBvh(random_dir) ==
    /\ IsSome(rc.call)
    /\ LET ray == Unwrap(rc.call).ray
           depth == Unwrap(rc.call).depth
           found == SceneHit(objects, bvh, ray, RayColorInterval)
       IN  IF depth = 0
           THEN rc' = [rc EXCEPT !.call = None, !.ret = Some(ZERO)]
           ELSE IF found = None
           THEN rc' = [rc EXCEPT !.call = None, !.queries = @ + 1,
                                 !.ret = Some(Background(background, ray.dir))]
           ELSE LET hit == Unwrap(found)
                    material == MaterialAt(materials, hit.material)
                    emitted == Emit(material, textures, hit)
                    scattered == Scatter(material, textures, ray, hit, random_dir)
                IN  IF scattered = None
                    THEN rc' = [rc EXCEPT !.call = None, !.queries = @ + 1,
                                          !.ret = Some(emitted)]
                    ELSE rc' = [rc EXCEPT
                                  !.call = Some([ray |-> Unwrap(scattered)[1],
                                                 depth |-> depth - 1]),
                                  !.queries = @ + 1,
                                  !.frames = Append(@, [emitted |-> emitted,
                                                        attenuation |-> Unwrap(scattered)[2]])]
    /\ bvh' = None
    /\ UNCHANGED <<objects, background, last, materials, textures, returned, boxes, out, rng, walk, render>>

\* the body of ray_color up to its return or its recursive call
RayColorEnter(random_dir) ==
    /\ IsSome(rc.call)
    /\ LET ray == Unwrap(rc.call).ray
           depth == Unwrap(rc.call).depth
           found == SceneHit(objects, bvh, ray, RayColorInterval)
       IN  IF depth = 0
           THEN rc' = [rc EXCEPT !.call = None, !.ret = Some(ZERO)]
           ELSE IF found = None
           THEN rc' = [rc EXCEPT !.call = None, !.queries = @ + 1,
                                 !.ret = Some(Background(background, ray.dir))]
           ELSE LET hit == Unwrap(found)
                    material == MaterialAt(materials, hit.material)
                    emitted == Emit(material, textures, hit)
                    scattered == Scatter(material, textures, ray, hit, random_dir)
                IN  IF scattered = None
                    THEN rc' = [rc EXCEPT !.call = None, !.queries = @ + 1,
                                          !.ret = Some(emitted)]
                    ELSE rc' = [rc EXCEPT
                                  !.call = Some([ray |-> Unwrap(scattered)[1],
                                                 depth |-> depth - 1]),
                                  !.queries = @ + 1,
                                  !.frames = Append(@, [emitted |-> emitted,
                                                        attenuation |-> Unwrap(scattered)[2]])]
    /\ UNCHANGED <<objects, background, bvh, last, materials, textures, returned, boxes, out, rng, walk, render>>

\* the recursive call returned: emitted - ray_color(...) * scattered
RayColorReturnSubtracting ==
    /\ rc.call = None
    /\ rc.frames # <<>>
    /\ LET frame == rc.frames[Len(rc.frames)]
       IN  rc' = [rc EXCEPT
                    !.frames = SubSeq(@, 1, Len(@) - 1),
                    !.ret = Some(VSub(frame.emitted, VMul(Unwrap(rc.ret), frame.attenuation)))]
    /\ UNCHANGED <<objects, background, bvh, last, materials, textures, returned, boxes, out, rng, walk, render>>

\* the recursive call returned: emitted + ray_color(...) * scattered
RayColorReturn ==
    /\ rc.call = None
    /\ rc.frames # <<>>
    /\ LET frame == rc.frames[Len(rc.frames)]
       IN  rc' = [rc EXCEPT
                    !.frames = SubSeq(@, 1, Len(@) - 1),
                    !.ret = Some(VAdd(frame.emitted, VMul(Unwrap(rc.ret), frame.attenuation)))]
    /\ UNCHANGED <<objects, background, bvh, last, materials, textures, returned, boxes, out, rng, walk, render>>

\* boxes[i].grow(&boxes[j])
AabbGrow(i, j) ==
    /\ boxes' = [boxes EXCEPT ![i] = Grow(boxes[i], boxes[j])]
    /\ UNCHANGED <<objects, background, bvh, last, materials, textures, returned, rc, out, rng, walk, render>>

Init ==
    /\ objects = <<>>
    /\ background = "white"
    /\ bvh = None
    /\ last = None
    /\ materials = <<>>
    /\ textures = <<>>
    /\ returned = {}
    /\ boxes = <<>>
    /\ rc = RcIdle
    /\ render = RenderIdle
    /\ walk = WalkIdle
    /\ rng = RngInit
    /\ out = None

Next ==
    \/ \E object \in Spheres : SceneAdd(object)
    \/ BuildBvh
    \/ \E ray \in Rays, time \in Intervals : Hit(ray, time)

Spec == Init /\ [][Next]_vars

\* the construction of a scene and its resources: the ids handed out
InitIds == Init

NextIds ==
    \/ \E object \in IdSpheres : SceneAdd(object)
    \/ \E material \in IdMaterials : AddMaterial(material)
    \/ \E texture \in IdTextures : AddTexture(texture)

SpecIds == InitIds /\ [][NextIds]_vars

\* a render: the scene and the resources are built, with the BVH or without
InitColor ==
    /\ objects \in RenderScenes
    /\ background \in Backgrounds
    /\ bvh \in {None, Some(BvhNew([i \in 1..Len(objects) |->
                                      <<i - 1, BoundingBox(objects[i])>>]))}
    /\ last = None
    /\ materials = RenderMaterials
    /\ textures \in RenderTextures
    /\ returned = {}
    /\ boxes = <<>>
    /\ rc = RcIdle
    /\ render = RenderIdle
    /\ walk = WalkIdle
    /\ rng = RngInit
    /\ out = None

\* a step of the ray_color call in progress
RayColorStep ==
    \/ \E random_dir \in ScatterDirs : RayColorEnter(random_dir)
    \/ RayColorReturn

NextColor ==
    \/ \E ray \in Rays, depth \in 0..MaxDepth : RayColorCall(ray, depth)
    \/ RayColorStep

SpecColor == InitColor /\ [][NextColor]_vars

\* Aabb::grow on three boxes a, b, c held in boxes[1], boxes[2], boxes[3]
InitAabb ==
    /\ objects = <<>>
    /\ background = "white"
    /\ bvh = None
    /\ last = None
    /\ materials = <<>>
    /\ textures = <<>>
    /\ returned = {}
    /\ boxes \in [1..3 -> AabbBoxes]
    /\ rc = RcIdle
    /\ render = RenderIdle
    /\ walk = WalkIdle
    /\ rng = RngInit
    /\ out = None

NextAabb == \E i, j \in 1..3 : AabbGrow(i, j)

SpecAabb == InitAabb /\ [][NextAabb]_vars

----------------------------------------------------------------------------
(* Bvh::hit step by step.  walk.pc is "idle" before the first call, "loop"    *)
(* while the call is in its while loop and "done" once it has returned;       *)
(* walk.box_tests counts the calls of Aabb::hit the call has made.            *)

\* the call and its first lines: hit_objects is empty, and `self.root?` returns
\* None at once or makes the stack [root]
BvhHitBegin(ray, time) ==
    /\ walk.pc # "loop"
    /\ IsSome(bvh)
    /\ walk' = IF Unwrap(bvh).root = None
               THEN [pc |-> "done", ray |-> Some(ray), time |-> Some(time), stack |-> <<>>,
                     hit_objects |-> <<>>, box_tests |-> 0, result |-> None]
               ELSE [pc |-> "loop", ray |-> Some(ray), time |-> Some(time),
                     stack |-> <<Unwrap(Unwrap(bvh).root)>>,
                     hit_objects |-> <<>>, box_tests |-> 0, result |-> None]
    /\ UNCHANGED <<objects, background, bvh, last, materials, textures, returned, boxes, rc,
                   out, rng, render>>

\* a turn of the loop that pushes the children of a branch whatever its box says
BvhHitPopPushingAlways ==
    /\ walk.pc = "loop"
    /\ walk.stack # <<>>
    /\ LET node == NodeAt(Unwrap(bvh), walk.stack[Len(walk.stack)])
           rest == SubSeq(walk.stack, 1, Len(walk.stack) - 1)
       IN  IF node.kind = "Leaf"
           THEN walk' = [walk EXCEPT !.stack = rest,
                                     !.hit_objects = Append(@, node.object)]
           ELSE walk' = [walk EXCEPT !.stack = rest \o <<node.left, node.right>>,
                                     !.box_tests = @ + 1]
    /\ UNCHANGED <<objects, background, bvh, last, materials, textures, returned, boxes, rc,
                   out, rng, render>>

\* one turn of `while let Some(node_id) = stack.pop()`
BvhHitPop ==
    /\ walk.pc = "loop"
    /\ walk.stack # <<>>
    /\ LET node == NodeAt(Unwrap(bvh), walk.stack[Len(walk.stack)])
           rest == SubSeq(walk.stack, 1, Len(walk.stack) - 1)
       IN  IF node.kind = "Leaf"
           THEN walk' = [walk EXCEPT !.stack = rest,
                                     !.hit_objects = Append(@, node.object)]
           ELSE IF AabbHit(node.bounding_box, Unwrap(walk.ray), Unwrap(walk.time))
                THEN walk' = [walk EXCEPT !.stack = rest \o <<node.left, node.right>>,
                                          !.box_tests = @ + 1]
                ELSE walk' = [walk EXCEPT !.stack = rest, !.box_tests = @ + 1]
    /\ UNCHANGED <<objects, background, bvh, last, materials, textures, returned, boxes, rc,
                   out, rng, render>>

\* the stack is empty: the loop ends and the call returns
BvhHitReturn ==
    /\ walk.pc = "loop"
    /\ walk.stack = <<>>
    /\ walk' = [walk EXCEPT !.pc = "done",
                            !.result = IF walk.hit_objects = <<>> THEN None
                                       ELSE Some(walk.hit_objects)]
    /\ UNCHANGED <<objects, background, bvh, last, materials, textures, returned, boxes, rc,
                   out, rng, render>>

\* a scene with its BVH built, queried again and again
InitWalk ==
    /\ objects \in WalkScenes
    /\ background = "white"
    /\ bvh = Some(BvhNew([i \in 1..Len(objects) |-> <<i - 1, BoundingBox(objects[i])>>]))
    /\ last = None
    /\ materials = <<>>
    /\ textures = <<>>
    /\ returned = {}
    /\ boxes = <<>>
    /\ rc = RcIdle
    /\ render = RenderIdle
    /\ out = None
    /\ rng = RngInit
    /\ walk = WalkIdle

NextWalk ==
    \/ \E ray \in Rays, time \in Intervals : BvhHitBegin(ray, time)
    \/ BvhHitPop
    \/ BvhHitReturn

SpecWalk == InitWalk /\ [][NextWalk]_vars

----------------------------------------------------------------------------
(* Random draws of the threads *)

\* thread w drawing from the THREAD_RNG of thread 1
RandomF64Shared(w) ==
    /\ Len(rng[w].drawn) < MaxDraws
    /\ LET rand == XorShift64(rng[1].random.state)
           advanced == [rng EXCEPT ![1].random.state = rand]
       IN  rng' = [advanced EXCEPT ![w].drawn = Append(@, RandomF64Bits(rand))]
    /\ UNCHANGED <<objects, background, bvh, last, materials, textures, returned, boxes, rc, out, walk, render>>

\* THREAD_RNG.with(|rng| rng.borrow_mut().random_f64()) on thread w
RandomF64(w) ==
    /\ Len(rng[w].drawn) < MaxDraws
    /\ LET rand == XorShift64(rng[w].random.state)
       IN  rng' = [rng EXCEPT ![w].random.state = rand,
                              ![w].drawn = Append(@, RandomF64Bits(rand))]
    /\ UNCHANGED <<objects, background, bvh, last, materials, textures, returned, boxes, rc, out, walk, render>>

InitRng == Init

NextRng == \E w \in Workers : RandomF64(w)

SpecRng == InitRng /\ [][NextRng]_vars

----------------------------------------------------------------------------
(* Calls of the functions that only compute: out keeps the latest call *)

\* self.largest_axis()
LargestAxisCall(self) ==
    /\ out' = Some([op |-> "largest_axis", self |-> self, result |-> LargestAxis(self)])
    /\ UNCHANGED <<objects, background, bvh, last, materials, textures, returned, boxes, rc, rng, walk, render>>

\* self.contains(value)
ContainsCall(self, value) ==
    /\ out' = Some([op |-> "contains", self |-> self, value |-> value,
                    result |-> Contains(self, value)])
    /\ UNCHANGED <<objects, background, bvh, last, materials, textures, returned, boxes, rc, rng, walk, render>>

\* self.hit(r, time) for a sphere
SphereHitCall(self, r, time) ==
    /\ out' = Some([op |-> "sphere_hit", self |-> self, r |-> r, time |-> time,
                    result |-> SphereHit(self, r, time)])
    /\ UNCHANGED <<objects, background, bvh, last, materials, textures, returned, boxes, rc, rng, walk, render>>

\* self.color(resources, u, v) for an ImageTexture
ImageColorCall(image, u, v) ==
    /\ out' = Some([op |-> "image_color", self |-> image, u |-> u, v |-> v,
                    result |-> ImageTextureColor(image, u, v)])
    /\ UNCHANGED <<objects, background, bvh, last, materials, textures, returned, boxes, rc, rng, walk, render>>

\* material.scatter(resources, ray, hit), with the textures of resources
ScatterCall(material, txs, ray, hit, random_dir) ==
    /\ out' = Some([op |-> "scatter", material |-> material, txs |-> txs, ray |-> ray,
                    hit |-> hit, result |-> Scatter(material, txs, ray, hit, random_dir)])
    /\ UNCHANGED <<objects, background, bvh, last, materials, textures, returned, boxes, rc, rng, walk, render>>

\* material.emit(resources, hit)
EmitCall(material, txs, hit) ==
    /\ out' = Some([op |-> "emit", material |-> material, txs |-> txs, hit |-> hit,
                    result |-> Emit(material, txs, hit)])
    /\ UNCHANGED <<objects, background, bvh, last, materials, textures, returned, boxes, rc, rng, walk, render>>

\* self.hit(ray, time) for a box
AabbHitCall(self, ray, time) ==
    /\ out' = Some([op |-> "aabb_hit", self |-> self, ray |-> ray, time |-> time,
                    result |-> AabbHit(self, ray, time)])
    /\ UNCHANGED <<objects, background, bvh, last, materials, textures, returned, boxes, rc,
                   rng, walk, render>>

InitCalls == Init

NextCalls ==
    \/ \E self \in AxisBoxes : LargestAxisCall(self)
    \/ \E self \in ContainsIntervals, value \in ContainsValues : ContainsCall(self, value)
    \/ \E self \in Spheres, r \in Rays, time \in HitIntervals : SphereHitCall(self, r, time)
    \/ \E image \in Images, u \in ImageUvs, v \in ImageUvs : ImageColorCall(image, u, v)
    \/ \E self \in HitBoxes, ray \in Rays \cup {RayDownY}, time \in HitIntervals :
          AabbHitCall(self, ray, time)

SpecCalls == InitCalls /\ [][NextCalls]_vars

\* the calls of the materials
InitMaterials == Init

NextMaterials ==
    \/ \E material \in CallMaterials, txs \in CallTextures, ray \in {RayDownY, RayAlongX},
          hit \in CallHits, random_dir \in ScatterDirs :
            ScatterCall(material, txs, ray, hit, random_dir)
    \/ \E material \in CallMaterials, txs \in CallTextures, hit \in CallHits :
            EmitCall(material, txs, hit)

SpecMaterials == InitMaterials /\ [][NextMaterials]_vars

----------------------------------------------------------------------------
(* Camera::render, one step at a time: a sample, a pixel, a callback *)

\* ImageBuffer::new: width * height * 3 bytes of zero
ImageBufferNew(width, height) ==
    ImageBuffer(width, height, [i \in 1..(width * height * 3) |-> 0])

\* IndexMut<(u32, u32)> for ImageBuffer, and the three bytes stored through it
ImageStore(image, x, y, pixel) ==
    LET idx == (y * image.width + x) * 3
    IN  [image EXCEPT !.data =
            [i \in 1..Len(image.data) |->
                IF i \in (idx + 1)..(idx + 3) THEN pixel[i - idx] ELSE image.data[i]]]

\* (c * sample_scale * 255.0).clamp(0.0, 255.0) as u8 for the sum c of the samples:
\* sample_scale is 1.0 / sample_count, +inf for no samples, and 0.0 * inf is NaN,
\* which clamp keeps and `as u8` turns into 0
Channel(c, sample_count) ==
    IF sample_count = 0 THEN 0
    ELSE IF c <= 0 THEN 0
    ELSE Min((c * 255) \div sample_count, 255)

\* the call of render: the image is allocated, the loops start at y = 0, x = 0
RenderCall(camera) ==
    /\ render.pc = "idle"
    /\ render' = [render EXCEPT !.pc = "running", !.camera = Some(camera),
                                !.image = Some(ImageBufferNew(camera.image_width,
                                                              camera.image_height)),
                                !.y = 0, !.x = 0, !.sample = 0, !.color = ZERO]
    /\ UNCHANGED <<objects, background, bvh, last, materials, textures, returned, boxes, rc, out, rng, walk>>

\* one turn of the loop over the samples: color += ray_color(..)
RenderSample(sampled) ==
    /\ render.pc = "running"
    /\ render.y < Unwrap(render.camera).image_height
    /\ render.x < Unwrap(render.camera).image_width
    /\ render.sample < Unwrap(render.camera).sample_count
    /\ render' = IF sampled = PANIC
                 THEN [render EXCEPT !.pc = "panicked"]
                 ELSE [render EXCEPT !.color = VAdd(render.color, sampled),
                                     !.sample = render.sample + 1]
    /\ UNCHANGED <<objects, background, bvh, last, materials, textures, returned, boxes, rc, out, rng, walk>>

\* the end of the loop over the samples: the pixel (x, y) is stored and the loop
\* over x goes on
RenderPixel ==
    /\ render.pc = "running"
    /\ render.y < Unwrap(render.camera).image_height
    /\ render.x < Unwrap(render.camera).image_width
    /\ render.sample = Unwrap(render.camera).sample_count
    /\ LET sample_count == Unwrap(render.camera).sample_count
           pixel == <<Channel(render.color[1], sample_count),
                      Channel(render.color[2], sample_count),
                      Channel(render.color[3], sample_count)>>
       IN  render' = [render EXCEPT
                        !.image = Some(ImageStore(Unwrap(render.image), render.x, render.y, pixel)),
                        !.written = Append(render.written,
                                           [x |-> render.x, y |-> render.y,
                                            samples |-> render.sample]),
                        !.x = render.x + 1, !.sample = 0, !.color = ZERO]
    /\ UNCHANGED <<objects, background, bvh, last, materials, textures, returned, boxes, rc, out, rng, walk>>

\* callback(y) made as soon as the loop over the samples is between two pixels
RenderCallbackBeforeRowEnd ==
    /\ render.pc = "running"
    /\ render.y < Unwrap(render.camera).image_height
    /\ render.sample = 0
    /\ render' = [render EXCEPT !.callbacks = Append(render.callbacks, render.y),
                                !.y = render.y + 1, !.x = 0]
    /\ UNCHANGED <<objects, background, bvh, last, materials, textures, returned, boxes, rc, out, rng, walk>>

\* the end of the loop over x: callback(y), and the loop over y goes on
RenderCallback ==
    /\ render.pc = "running"
    /\ render.y < Unwrap(render.camera).image_height
    /\ render.x = Unwrap(render.camera).image_width
    /\ render' = [render EXCEPT !.callbacks = Append(render.callbacks, render.y),
                                !.y = render.y + 1, !.x = 0]
    /\ UNCHANGED <<objects, background, bvh, last, materials, textures, returned, boxes, rc, out, rng, walk>>

\* the end of the loop over y: render returns the image
RenderReturn ==
    /\ render.pc = "running"
    /\ render.y = Unwrap(render.camera).image_height
    /\ render' = [render EXCEPT !.pc = "done"]
    /\ UNCHANGED <<objects, background, bvh, last, materials, textures, returned, boxes, rc, out, rng, walk>>

InitRender == Init

NextRender ==
    \/ \E camera \in Cameras : RenderCall(camera)
    \/ \E sampled \in SampleColors : RenderSample(sampled)
    \/ RenderPixel
    \/ RenderCallback
    \/ RenderReturn

SpecRender == InitRender /\ [][NextRender]_vars

----------------------------------------------------------------------------
(* What the claims speak of *)

\* the number of objects the built tree holds: one leaf for each
Built(tree) ==
    Cardinality({i \in 1..Len(Unwrap(tree).nodes) : Unwrap(tree).nodes[i].kind = "Leaf"})

\* build_bvh ran after the last add
Fresh == IsSome(bvh) /\ Built(bvh) = Len(objects)

\* build_bvh ran, and add ran after it
Stale == IsSome(bvh) /\ Built(bvh) < Len(objects)

\* the orders in which the ids of the set S can be visited
Orders(S) ==
    {p \in [1..Cardinality(S) -> S] : \A i, j \in 1..Cardinality(S) : i # j => p[i] # p[j]}

\* the hits, within time, of the objects with the ids of the set S
HitsOf(S, ray, time) ==
    {h \in {SphereHit(ObjectAt(objects, id), ray, time) : id \in S} : IsSome(h)}

\* C1: with the BVH built after the last add, Scene.hit returns what the
\* linear path returns over the same objects
C1_SameAsLinear ==
    (IsSome(last) /\ Fresh) =>
        Unwrap(last).result = HitSlow(objects, Unwrap(last).ray, Unwrap(last).time)

\* with the BVH built after the last add, Scene.hit and the linear path both miss
\* or both hit at the same t and point
C1_SameTAndPoint ==
    (IsSome(last) /\ Fresh) =>
        LET fast == Unwrap(last).result
            slow == HitSlow(objects, Unwrap(last).ray, Unwrap(last).time)
        IN  /\ IsSome(fast) <=> IsSome(slow)
            /\ IsSome(fast) => /\ Unwrap(fast).t = Unwrap(slow).t
                               /\ Unwrap(fast).point = Unwrap(slow).point

\* the ids Scene.hit examined in its latest call, as a set
Examined == {Unwrap(last).tested[i] : i \in 1..Len(Unwrap(last).tested)}

\* what the shrinking-interval loop returns when it visits the examined objects in
\* the order p
InOrder(p) ==
    HitLoop([i \in 1..Len(p) |-> ObjectAt(objects, p[i])],
            Unwrap(last).ray, Unwrap(last).time, None)

\* the result of the latest call is a hit of an examined object with the smallest
\* t among the hits of the examined objects, or no hit when none of them is hit
NearestOfExamined ==
    LET hits == HitsOf(Examined, Unwrap(last).ray, Unwrap(last).time)
        result == Unwrap(last).result
    IN  /\ result = None <=> hits = {}
        /\ result # None =>
              /\ result \in hits
              /\ \A h \in hits : Unwrap(result).t <= Unwrap(h).t

Nearest ==
    LET ray == Unwrap(last).ray
        time == Unwrap(last).time
        hits == HitsOf(Examined, ray, time)
    IN  {id \in Examined :
            LET h == SphereHit(ObjectAt(objects, id), ray, time)
            IN  IsSome(h) /\ \A g \in hits : Unwrap(h).t <= Unwrap(g).t}

\* the first id of the order p that is in the set S
FirstIn(p, S) == p[CHOOSE i \in 1..Len(p) : p[i] \in S /\ \A j \in 1..(i - 1) : p[j] \notin S]

TwoBoxQuery ==
    /\ IsSome(last)
    /\ Fresh
    /\ Len(objects) = 2
    /\ {objects[1], objects[2]} = {SphereAtOrigin, SphereAtSix}
    /\ Unwrap(last).ray = RayAtSix

\* the id of the object of the two-box scene that is the sphere s
IdOf(s) == IF objects[1] = s THEN 0 ELSE 1

\* Scene.hit reported the intersection with the second object: its hit within the
\* interval of the query, which for ray_color's interval is the hit at t = 5
SecondReported ==
    /\ Unwrap(last).result = SphereHit(SphereAtSix, RayAtSix, Unwrap(last).time)
    /\ Unwrap(last).time = RayColorInterval =>
          /\ IsSome(Unwrap(last).result)
          /\ Unwrap(Unwrap(last).result).t = 5000
          /\ Unwrap(Unwrap(last).result).point = Vec3(6000, 6000, 5000)
          /\ Unwrap(Unwrap(last).result).material = SphereAtSix.material

C4_StaleBvhKept ==
    /\ [][Len(objects') > Len(objects) => bvh' = bvh]_vars
    /\ [](Stale /\ IsSome(last) =>
            /\ \A id \in Examined : id < Built(bvh)
            /\ LET ids == BvhHit(Unwrap(bvh), Unwrap(last).ray, Unwrap(last).time)
               IN  Unwrap(last).tested = IF ids = None THEN <<>> ELSE Unwrap(ids)
            /\ Unwrap(last).result =
                  HitFast(SubSeq(objects, 1, Built(bvh)), bvh,
                          Unwrap(last).ray, Unwrap(last).time))

\* a query on a stale BVH whose ray hits, nearest of all, an object added after
\* the build, and which returned something else
C4_Witness ==
    /\ Stale
    /\ IsSome(last)
    /\ LET slow == HitSlow(objects, Unwrap(last).ray, Unwrap(last).time)
       IN  /\ IsSome(slow)
           /\ slow # Unwrap(last).result
           /\ \E id \in Built(bvh)..(Len(objects) - 1) :
                 SphereHit(ObjectAt(objects, id), Unwrap(last).ray, Unwrap(last).time) = slow
           /\ \A id \in 0..(Built(bvh) - 1) :
                 SphereHit(ObjectAt(objects, id), Unwrap(last).ray, Unwrap(last).time) # slow

\* C5: a BVH built from no object has no root and no node, every query against it
\* returns None, and Scene.hit on a scene holding it reports no hit
C5_EmptyBvh ==
    (IsSome(bvh) /\ Built(bvh) = 0) =>
        /\ Unwrap(bvh).root = None
        /\ Unwrap(bvh).nodes = <<>>
        /\ \A ray \in Rays, time \in Intervals : BvhHit(Unwrap(bvh), ray, time) = None
        /\ IsSome(last) => (Unwrap(last).result = None /\ Unwrap(last).tested = <<>>)

\* a query on a scene whose BVH was built from no object, made after an object
\* that the ray meets was added
C5_Witness ==
    /\ IsSome(bvh)
    /\ Built(bvh) = 0
    /\ IsSome(last)
    /\ IsSome(HitSlow(objects, Unwrap(last).ray, Unwrap(last).time))

----------------------------------------------------------------------------
(* ray_color *)

\* every component of the color c is >= 0
NonNegative(c) == c[1] >= 0 /\ c[2] >= 0 /\ c[3] >= 0

\* the directions of the rays ray_color is called with
Directions == {r.dir : r \in Rays} \cup ScatterDirs

\* every material of the scene returns a non-negative emission and a non-negative
\* attenuation
NonNegativeMaterials ==
    \A i \in 1..Len(materials) :
        LET m == materials[i]
        IN  /\ m.kind = "DiffuseLight" => NonNegative(TextureAt(textures, m.texture).color)
            /\ m.kind = "Lambertian" => NonNegative(TextureAt(textures, m.albedo).color)
            /\ m.kind = "Metal" => NonNegative(m.albedo)

\* the background function returns a non-negative color for every direction
NonNegativeBackground == \A dir \in Directions : NonNegative(Background(background, dir))

\* a ray_color call is in progress
Running == IsSome(rc.call) \/ rc.frames # <<>>

\* the outermost ray_color call has returned
Finished == rc.call = None /\ rc.frames = <<>> /\ IsSome(rc.ret)

\* the number of steps the ray_color call in progress can still take at most
Remaining ==
    IF IsSome(rc.call) THEN 2 * Unwrap(rc.call).depth + 1 + Len(rc.frames)
    ELSE Len(rc.frames)

\* C6: a call with depth 0 returns black without a query; a call with depth d
\* passes depth - 1 to each recursive call, so it makes at most d queries and
\* nests at most d deep; and it terminates: while it runs it can take a step, and
\* each step lowers the number of steps that remain
C6_Bounded ==
    /\ [](/\ rc.queries <= rc.depth
          /\ Len(rc.frames) <= rc.depth
          /\ IsSome(rc.call) => Unwrap(rc.call).depth = rc.depth - Len(rc.frames)
          /\ (Finished /\ rc.depth = 0) => (rc.ret = Some(ZERO) /\ rc.queries = 0)
          /\ Remaining >= 0
          /\ (rc.call = None /\ rc.frames # <<>>) => IsSome(rc.ret))
    /\ [][(IsSome(rc.call) /\ Unwrap(rc.call).depth = 0 /\ rc' # rc) =>
             (rc'.ret = Some(ZERO) /\ rc'.queries = rc.queries /\ rc'.call = None)]_vars
    /\ [][(Running /\ rc' # rc) => Remaining' < Remaining]_vars

\* a call with the largest depth that went as deep as it can: a query at every
\* level, and the innermost call given depth 0
C6_Witness ==
    /\ rc.depth = MaxDepth
    /\ rc.queries = MaxDepth
    /\ Len(rc.frames) = MaxDepth
    /\ rc.call = None
    /\ rc.ret = Some(ZERO)

\* C7: ray_color returns a color with no negative component whenever every
\* material returns a non-negative emission and attenuation
C7_NonNegative ==
    (NonNegativeMaterials /\ IsSome(rc.ret)) => NonNegative(Unwrap(rc.ret))

\* C7, amended: ... and the background function returns no negative component
C7_NonNegativeWithBackground ==
    (NonNegativeMaterials /\ NonNegativeBackground /\ IsSome(rc.ret)) =>
        NonNegative(Unwrap(rc.ret))

\* an outermost call that returned emitted + attenuation * (the color of a
\* recursive call), not black, with non-negative materials and background
C7_Witness ==
    /\ NonNegativeMaterials
    /\ NonNegativeBackground
    /\ Finished
    /\ rc.queries >= 2
    /\ Unwrap(rc.ret) # ZERO

\* C8: with depth > 0 ray_color returns the background at the ray's direction
\* when Scene.hit finds nothing, emit(hit) when the material does not scatter, and
\* otherwise emit(hit) + attenuation * ray_color(scattered ray, depth - 1)
C8_ThreeCases ==
    [][/\ (IsSome(rc.call) /\ Unwrap(rc.call).depth > 0 /\ rc' # rc) =>
            LET ray == Unwrap(rc.call).ray
                found == SceneHit(objects, bvh, ray, Interval(1, INFINITY))
            IN  IF found = None
                THEN /\ rc'.ret = Some(Background(background, ray.dir))
                     /\ rc'.call = None
                     /\ rc'.frames = rc.frames
                ELSE LET hit == Unwrap(found)
                         material == MaterialAt(materials, hit.material)
                         emitted == Emit(material, textures, hit)
                     IN  \E d \in ScatterDirs :
                           LET scattered == Scatter(material, textures, ray, hit, d)
                           IN  IF scattered = None
                               THEN /\ rc'.ret = Some(emitted)
                                    /\ rc'.call = None
                                    /\ rc'.frames = rc.frames
                               ELSE /\ rc'.call = Some([ray |-> Unwrap(scattered)[1],
                                                        depth |-> Unwrap(rc.call).depth - 1])
                                    /\ rc'.frames = Append(rc.frames,
                                           [emitted |-> emitted,
                                            attenuation |-> Unwrap(scattered)[2]])
       /\ (rc.call = None /\ rc.frames # <<>> /\ rc' # rc) =>
            LET frame == rc.frames[Len(rc.frames)]
                inner == Unwrap(rc.ret)
            IN  /\ rc'.ret = Some(<<frame.emitted[1] + frame.attenuation[1] * inner[1],
                                    frame.emitted[2] + frame.attenuation[2] * inner[2],
                                    frame.emitted[3] + frame.attenuation[3] * inner[3]>>)
                /\ rc'.frames = SubSeq(rc.frames, 1, Len(rc.frames) - 1)
                /\ rc'.call = None]_vars

\* a call that scattered twice and whose innermost call returned the emission of
\* a light: the outermost call has returned the sum built on it
C8_Witness ==
    /\ Finished
    /\ rc.queries = 3
    /\ rc.depth = 3
    /\ Unwrap(rc.ret) \notin {ZERO} \cup {Background(background, d) : d \in Directions}

----------------------------------------------------------------------------
(* the ids of objects, materials and textures *)

\* the collection an id of the kind coll indexes
CollectionOf(coll) ==
    IF coll = "object" THEN objects ELSE IF coll = "material" THEN materials ELSE textures

\* the ids returned so far for the collection coll
IdsOf(coll) == {e[2] : e \in {r \in returned : r[1] = coll}}

\* C9: each add returns the number of items inserted earlier into its own
\* collection, the three collections are numbered independently, no id is handed
\* out twice, and an id returned earlier still denotes its item after later adds
C9_IdsInInsertionOrder ==
    /\ [](\A coll \in {"object", "material", "texture"} :
            /\ IdsOf(coll) = 0..(Len(CollectionOf(coll)) - 1)
            /\ \A e \in returned :
                 e[1] = coll => /\ e[2] < Len(CollectionOf(coll))
                                /\ CollectionOf(coll)[e[2] + 1] = e[3]
            /\ \A e, f \in returned : (e[1] = coll /\ f[1] = coll /\ e[2] = f[2]) => e = f)
    /\ [][/\ returned \subseteq returned'
          /\ \A e \in returned' \ returned :
               /\ e[2] = Len(CollectionOf(e[1]))
               /\ returned' \ returned = {e}
               /\ e[1] # "object" => objects' = objects
               /\ e[1] # "material" => materials' = materials
               /\ e[1] # "texture" => textures' = textures]_vars

\* every collection holds two items or more, added in turns, and the id 1 was
\* returned for each of them
C9_Witness ==
    /\ Len(objects) >= 2 /\ Len(materials) >= 2 /\ Len(textures) >= 2
    /\ \A coll \in {"object", "material", "texture"} : {0, 1} \subseteq IdsOf(coll)
    /\ \E e, f \in returned : e[1] # f[1] /\ e[2] = f[2] /\ e[2] = 1

----------------------------------------------------------------------------
(* Aabb::grow *)

\* C10: grow is a union of boxes: commutative, idempotent (a by a, and twice by
\* b), associative, and Aabb::EMPTY is its identity
C10_GrowIsUnion ==
    LET a == boxes[1]
        b == boxes[2]
        c == boxes[3]
    IN  /\ Grow(a, b) = Grow(b, a)
        /\ Grow(a, a) = a
        /\ Grow(Grow(a, b), b) = Grow(a, b)
        /\ Grow(Grow(a, b), c) = Grow(a, Grow(b, c))
        /\ Grow(a, AabbEMPTY) = a

\* a was grown into a box that is none of the boxes it began from, with b and c
\* two different boxes that it now encloses, neither of them empty
C10_Witness ==
    /\ boxes[1] \notin AabbBoxes
    /\ boxes[2] # boxes[3]
    /\ boxes[2] \in AabbBoxes \ {AabbEMPTY}
    /\ boxes[3] \in AabbBoxes \ {AabbEMPTY}
    /\ Grow(boxes[1], boxes[2]) = boxes[1]
    /\ Grow(boxes[1], boxes[3]) = boxes[1]

----------------------------------------------------------------------------
(* Aabb::largest_axis *)

\* the latest call is a call of op
Called(op) == IsSome(out) /\ Unwrap(out).op = op

\* the extent end - start of the box along axis
Extent(box, axis) == FSub(Component(box, axis).end, Component(box, axis).start)

\* C11: largest_axis returns an axis of maximal extent; it returns x only when
\* x's extent is strictly greater than y's and z's, otherwise y only when y's is
\* strictly greater than z's, otherwise z
C11_LargestAxis ==
    Called("largest_axis") =>
        LET box == Unwrap(out).self
            axis == Unwrap(out).result
            x == Extent(box, 0)
            y == Extent(box, 1)
            z == Extent(box, 2)
        IN  /\ axis \in {0, 1, 2}
            /\ \A other \in {0, 1, 2} : Extent(box, axis) >= Extent(box, other)
            /\ axis = IF x > y /\ x > z THEN 0 ELSE IF y > z THEN 1 ELSE 2

\* a box whose x and y extents tie above z's: the answer is y
C11_Witness ==
    /\ Called("largest_axis")
    /\ Extent(Unwrap(out).self, 0) = Extent(Unwrap(out).self, 1)
    /\ Extent(Unwrap(out).self, 1) > Extent(Unwrap(out).self, 2)
    /\ Unwrap(out).result = 1

----------------------------------------------------------------------------
(* Interval::contains *)

\* C12: contains(v) is true exactly when start <= v <= end, both ends included,
\* and the empty interval contains no value
C12_Contains ==
    Called("contains") =>
        LET self == Unwrap(out).self
            v == Unwrap(out).value
        IN  /\ Unwrap(out).result <=> (v # NAN /\ self.start <= v /\ v <= self.end)
            /\ self = IntervalEMPTY => ~Unwrap(out).result

\* a finite value equal to the end of the interval, and above its start, is
\* contained
C12_Witness ==
    /\ Called("contains")
    /\ Unwrap(out).value = Unwrap(out).self.end
    /\ Unwrap(out).value > Unwrap(out).self.start
    /\ Unwrap(out).value < INFINITY
    /\ Unwrap(out).result

----------------------------------------------------------------------------
(* SphereObject::hit *)

\* the discriminant of the sphere and the ray of the latest call
Discriminant ==
    LET oc == VSub(Unwrap(out).self.center, Unwrap(out).r.orig)
        a == LenSq(Unwrap(out).r.dir)
        h == Dot(oc, Unwrap(out).r.dir)
    IN  h * h - a * (LenSq(oc) - Unwrap(out).self.radius * Unwrap(out).self.radius)

\* the roots of the latest call, the smaller first
Roots ==
    LET oc == VSub(Unwrap(out).self.center, Unwrap(out).r.orig)
        a == LenSq(Unwrap(out).r.dir)
        h == Dot(oc, Unwrap(out).r.dir)
    IN  <<(h - Sqrt(Discriminant)) \div a, (h + Sqrt(Discriminant)) \div a>>

\* t lies strictly inside the interval of the latest call
StrictlyInside(t) == Unwrap(out).time.start < t /\ t < Unwrap(out).time.end

\* C13: no hit when the discriminant is negative; otherwise the smaller root
\* when it lies strictly inside (time.start, time.end), else the larger root when
\* that one does, else no hit; every t returned is strictly inside
C13_RootChoice ==
    Called("sphere_hit") =>
        LET result == Unwrap(out).result
        IN  /\ Discriminant < 0 => result = None
            /\ Discriminant >= 0 =>
                 IF StrictlyInside(Roots[1])
                 THEN IsSome(result) /\ Unwrap(result).t = Roots[1]
                 ELSE IF StrictlyInside(Roots[2])
                 THEN IsSome(result) /\ Unwrap(result).t = Roots[2]
                 ELSE result = None
            /\ IsSome(result) => StrictlyInside(Unwrap(result).t)

\* the smaller root equals time.start and is passed over for the larger one
C13_Witness ==
    /\ Called("sphere_hit")
    /\ Discriminant > 0
    /\ Roots[1] = Unwrap(out).time.start
    /\ IsSome(Unwrap(out).result)
    /\ Unwrap(Unwrap(out).result).t = Roots[2]

----------------------------------------------------------------------------
(* Intersection::face_normal *)

\* the outward normal at the point of the record hit, for the sphere of the
\* latest call
OutwardNormal(hit) ==
    LET d == VSub(hit.point, Unwrap(out).self.center)
        radius == Unwrap(out).self.radius
    IN  <<(d[1] * 1000) \div radius, (d[2] * 1000) \div radius, (d[3] * 1000) \div radius>>

\* the ray of the latest call starts inside its sphere
StartsInside ==
    LenSq(VSub(Unwrap(out).r.orig, Unwrap(out).self.center))
        < Unwrap(out).self.radius * Unwrap(out).self.radius

----------------------------------------------------------------------------
(* What rendering leaves alone *)

\* C15: the steps of a render (ray_color with the Scene.hit, Bvh.hit, scatter,
\* emit and texture color calls it makes) leave the objects, the background, the
\* BVH, the materials and the textures as they were
C15_RenderReadsOnly ==
    [][/\ objects' = objects
       /\ background' = background
       /\ bvh' = bvh
       /\ materials' = materials
       /\ textures' = textures]_vars

\* a ray_color call over a scene with its BVH built has returned after a query
\* at every depth, and the scene and the resources are those the render began with
C15_Witness ==
    /\ Finished
    /\ rc.depth >= 2
    /\ rc.queries = rc.depth
    /\ IsSome(bvh)
    /\ bvh = Some(BvhNew([i \in 1..Len(objects) |-> <<i - 1, BoundingBox(objects[i])>>]))
    /\ objects \in RenderScenes
    /\ materials = RenderMaterials
    /\ textures \in RenderTextures

----------------------------------------------------------------------------
(* THREAD_RNG *)

RECURSIVE Alone(_, _)
\* the first n values a thread draws when it runs alone from the state given
Alone(state, n) ==
    IF n = 0 THEN <<>>
    ELSE <<RandomF64Bits(XorShift64(state))>> \o Alone(XorShift64(state), n - 1)

----------------------------------------------------------------------------
(* ImageTexture::color *)

\* the bytes of the pixel (x, y) of the image
PixelOf(image, x, y) ==
    <<image.data[(y * image.width + x) * 3 + 1],
      image.data[(y * image.width + x) * 3 + 2],
      image.data[(y * image.width + x) * 3 + 3]>>

\* C17: for every u and v in [0, 1], ends included, color returns the pixel at
\* x = trunc(width * u), y = trunc(height * v), which is a pixel of the image
\* (x < width, y < height), each channel divided by 255 and so in [0, 1]
C17_PixelOfImage ==
    Called("image_color") =>
        LET image == Unwrap(out).self
            result == Unwrap(out).result
            x == (image.width * Unwrap(out).u) \div 4
            y == (image.height * Unwrap(out).v) \div 4
        IN  /\ ~result.panic
            /\ x < image.width
            /\ y < image.height
            /\ result.color = PixelOf(image, x, y)
            /\ \A i \in 1..3 : result.color[i] \in 0..255

----------------------------------------------------------------------------
(* Material::scatter and Material::emit *)

\* what the variant of the material fixes about the latest scatter or emit call
VariantFixes ==
    LET material == Unwrap(out).material
        hit == Unwrap(out).hit
        result == Unwrap(out).result
        color(id) == TextureColor(TextureAt(Unwrap(out).txs, id), hit.u, hit.v)
    IN  /\ result # PANIC
        /\ (Called("scatter") /\ material.kind = "DiffuseLight") => result = None
        /\ (Called("scatter") /\ material.kind = "Lambertian") =>
             IsSome(result) /\ Unwrap(result)[2] = color(material.albedo)
        /\ (Called("scatter") /\ material.kind = "Dielectric") =>
             IsSome(result) /\ Unwrap(result)[2] = WHITE
        /\ (Called("emit") /\ material.kind = "DiffuseLight") =>
             result = color(material.texture)
        /\ (Called("emit") /\ material.kind # "DiffuseLight") => result = ZERO

\* C18: the diffuse light never scatters and emits its texture's color at (u, v);
\* the Lambertian material always scatters, with its albedo texture's color at
\* (u, v) as attenuation; the dielectric always scatters with attenuation white;
\* Lambertian, metal and dielectric emit zero
C18_VariantFixesScatter ==
    (Called("scatter") \/ Called("emit")) => VariantFixes

\* the same with solid textures only, whose color needs no pixel
C18_WithSolidTextures ==
    ((Called("scatter") \/ Called("emit")) /\ Unwrap(out).txs \in RenderTextures) =>
        VariantFixes

----------------------------------------------------------------------------
(* Bvh::build_tree *)

\* the items build_bvh hands to Bvh::new: each object's id with its box
BvhItems == [i \in 1..Len(objects) |-> <<i - 1, BoundingBox(objects[i])>>]

RECURSIVE Subtree(_, _)
\* the subtree of the node id of the tree self, as a nested record
Subtree(self, id) ==
    LET node == NodeAt(self, id)
    IN  IF node.kind = "Leaf" THEN [kind |-> "Leaf", object |-> node.object]
        ELSE [kind |-> "Branch", bounding_box |-> node.bounding_box,
              left |-> Subtree(self, node.left), right |-> Subtree(self, node.right)]

RECURSIVE LeavesOf(_)
\* the object ids a subtree holds
LeavesOf(tree) ==
    IF tree.kind = "Leaf" THEN {tree.object}
    ELSE LeavesOf(tree.left) \cup LeavesOf(tree.right)

RECURSIVE UnionOfBoxes(_)
\* the grow-fold of the boxes of the items, from Aabb::EMPTY
UnionOfBoxes(items) ==
    IF items = <<>> THEN AabbEMPTY
    ELSE Grow(UnionOfBoxes(SubSeq(items, 1, Len(items) - 1)), items[Len(items)][2])

\* the number of items that come before item n once the range is sorted by box
\* start along axis, items of equal start keeping their order
Rank(items, axis, n) ==
    Cardinality({m \in 1..Len(items) :
        \/ Component(items[m][2], axis).start < Component(items[n][2], axis).start
        \/ /\ Component(items[m][2], axis).start = Component(items[n][2], axis).start
           /\ m < n})

\* the range sorted by box start along axis, equal starts in their former order
SortedRange(items, axis) ==
    [k \in 1..Len(items) |-> items[CHOOSE n \in 1..Len(items) : Rank(items, axis, n) = k - 1]]

RECURSIVE TreeBuiltAsSaid(_, _)
\* tree is what the build makes of the range items
TreeBuiltAsSaid(tree, items) ==
    IF Len(items) = 1
    THEN tree = [kind |-> "Leaf", object |-> items[1][1]]
    ELSE LET box == UnionOfBoxes(items)
             sorted == SortedRange(items, LargestAxis(box))
             half == Len(items) \div 2
         IN  /\ tree.kind = "Branch"
             /\ tree.bounding_box = box
             /\ LeavesOf(tree.left) = {sorted[k][1] : k \in 1..half}
             /\ LeavesOf(tree.right) = {sorted[k][1] : k \in (half + 1)..Len(items)}
             /\ Cardinality(LeavesOf(tree.left)) <= Cardinality(LeavesOf(tree.right))
             /\ TreeBuiltAsSaid(tree.left, SubSeq(sorted, 1, half))
             /\ TreeBuiltAsSaid(tree.right, SubSeq(sorted, half + 1, Len(items)))

\* C19: a range of one item becomes a Leaf of that object; a range of two or more
\* becomes a Branch with the grow-fold of the range's boxes, the first
\* floor(len / 2) items of the range sorted by box start along the largest axis
\* on the left and the rest on the right, the left never the larger
C19_BuildSplitsInHalves ==
    (Fresh /\ objects # <<>>) =>
        TreeBuiltAsSaid(Subtree(Unwrap(bvh), Unwrap(Unwrap(bvh).root)), BvhItems)

\* a tree of three objects whose sort moved the object added first to the right
C19_Witness ==
    /\ Fresh
    /\ Len(objects) = 3
    /\ LET tree == Subtree(Unwrap(bvh), Unwrap(Unwrap(bvh).root))
       IN  /\ tree.left.kind = "Leaf"
           /\ tree.left.object # 0
           /\ tree.right.kind = "Branch"
           /\ 0 \in LeavesOf(tree.right)

----------------------------------------------------------------------------
(* Bvh::hit *)

RECURSIVE NodesUnder(_, _)
\* the number of nodes of the subtree of node id
NodesUnder(self, id) ==
    IF NodeAt(self, id).kind = "Leaf" THEN 1
    ELSE 1 + NodesUnder(self, NodeAt(self, id).left) + NodesUnder(self, NodeAt(self, id).right)

RECURSIVE NodesUnderAll(_, _)
\* the nodes of the subtrees of the node ids of stack, counted together
NodesUnderAll(self, stack) ==
    IF stack = <<>> THEN 0
    ELSE NodesUnder(self, stack[1]) + NodesUnderAll(self, SubSeq(stack, 2, Len(stack)))

\* the turns and the return the Bvh::hit call in progress can still take at most
WalkRemaining ==
    IF walk.pc = "loop" THEN 1 + NodesUnderAll(Unwrap(bvh), walk.stack) ELSE 0

\* the node the next turn of the loop pops
Popped == NodeAt(Unwrap(bvh), walk.stack[Len(walk.stack)])

----------------------------------------------------------------------------
(* Aabb::hit *)

\* the ray of the latest call stays between the two planes of the box along
\* axis, for a direction component 0 along it
BetweenPlanes(axis) ==
    LET slab == Component(Unwrap(out).self, axis)
        o == Unwrap(out).ray.orig[axis + 1]
    IN  slab.start <= o /\ o <= slab.end

\* the parameter at which the ray of the latest call enters the slab of the box
\* along axis: for a direction component 0, -inf between the planes and +inf
\* outside them
Near(axis) ==
    LET slab == Component(Unwrap(out).self, axis)
        o == Unwrap(out).ray.orig[axis + 1]
        d == Unwrap(out).ray.dir[axis + 1]
    IN  IF d = 0 THEN (IF BetweenPlanes(axis) THEN NEG_INFINITY ELSE INFINITY)
        ELSE Min((slab.start - o) \div d, (slab.end - o) \div d)

\* the parameter at which it leaves the slab
Far(axis) ==
    LET slab == Component(Unwrap(out).self, axis)
        o == Unwrap(out).ray.orig[axis + 1]
        d == Unwrap(out).ray.dir[axis + 1]
    IN  IF d = 0 THEN (IF BetweenPlanes(axis) THEN INFINITY ELSE NEG_INFINITY)
        ELSE Max((slab.start - o) \div d, (slab.end - o) \div d)

\* the running start and end after the axes 0..axis
StartAfter(axis) ==
    Max(Unwrap(out).time.start,
        IF axis = 0 THEN Near(0)
        ELSE IF axis = 1 THEN Max(Near(0), Near(1))
        ELSE Max(Near(0), Max(Near(1), Near(2))))

EndAfter(axis) ==
    Min(Unwrap(out).time.end,
        IF axis = 0 THEN Far(0)
        ELSE IF axis = 1 THEN Min(Far(0), Far(1))
        ELSE Min(Far(0), Min(Far(1), Far(2))))

\* C21: Aabb.hit narrows the interval axis by axis to the larger near and the
\* smaller far parameter, answers false as soon as end <= start after an axis and
\* true when all three pass; with a direction component 0 the answer is still
\* that of the ray-box test: the ray is inside the box over a stretch of the
\* interval
C21_SlabTest ==
    Called("aabb_hit") =>
        /\ Unwrap(out).result <=> \A axis \in {0, 1, 2} : EndAfter(axis) > StartAfter(axis)
        /\ Unwrap(out).result <=> EndAfter(2) > StartAfter(2)

\* a ray that runs in the plane of a face of the box (direction component 0,
\* origin on the plane) and along the box is accepted
C21_Witness ==
    /\ Called("aabb_hit")
    /\ \E axis \in {0, 1, 2} :
         /\ Unwrap(out).ray.dir[axis + 1] = 0
         /\ Unwrap(out).ray.orig[axis + 1] = Component(Unwrap(out).self, axis).end
    /\ \E axis \in {0, 1, 2} : Unwrap(out).ray.dir[axis + 1] # 0
    /\ Unwrap(out).result

----------------------------------------------------------------------------
(* The nodes of a built Bvh *)

\* the NodeIds of the tree
NodeIds(self) == 0..(Len(self.nodes) - 1)

\* the branches of the tree that have the node id as a child, each counted once
\* for its left and once for its right
ParentLinks(self, id) ==
    {<<b, side>> \in NodeIds(self) \X {"left", "right"} :
        /\ NodeAt(self, b).kind = "Branch"
        /\ IF side = "left" THEN NodeAt(self, b).left = id ELSE NodeAt(self, b).right = id}

\* C22: after Bvh::new on n >= 1 items the nodes are a binary tree: 2n - 1
\* nodes, n leaves and n - 1 branches; every object id in exactly one leaf; the
\* children of a branch have smaller indices than the branch and lie within the
\* collection; every node but the root is the child of exactly one branch; the
\* root is the last node
C22_WellFormedTree ==
    (Fresh /\ objects # <<>>) =>
        LET self == Unwrap(bvh)
            n == Len(objects)
            leaves == {id \in NodeIds(self) : NodeAt(self, id).kind = "Leaf"}
            branches == {id \in NodeIds(self) : NodeAt(self, id).kind = "Branch"}
        IN  /\ Len(self.nodes) = 2 * n - 1
            /\ Cardinality(leaves) = n
            /\ Cardinality(branches) = n - 1
            /\ \A object_id \in 0..(n - 1) :
                 Cardinality({id \in leaves : NodeAt(self, id).object = object_id}) = 1
            /\ \A b \in branches :
                 /\ NodeAt(self, b).left \in 0..(b - 1)
                 /\ NodeAt(self, b).right \in 0..(b - 1)
            /\ self.root = Some(Len(self.nodes) - 1)
            /\ \A id \in NodeIds(self) :
                 Cardinality(ParentLinks(self, id)) = IF Some(id) = self.root THEN 0 ELSE 1

\* a tree over three objects: five nodes, the root the fifth
C22_Witness ==
    /\ Fresh
    /\ Len(objects) = 3
    /\ Len(Unwrap(bvh).nodes) = 5
    /\ Unwrap(bvh).root = Some(4)
    /\ NodeAt(Unwrap(bvh), 4).kind = "Branch"

----------------------------------------------------------------------------
(* What the BVH query keeps *)

\* the ids of the objects whose own box the ray of the latest Scene.hit call
\* passes within its interval
BoxPassed ==
    {id \in 0..(Len(objects) - 1) :
        AabbHit(BoundingBox(ObjectAt(objects, id)), Unwrap(last).ray, Unwrap(last).time)}

\* the box of every branch encloses the boxes of the leaves below it
BranchesEnclose ==
    \A b \in NodeIds(Unwrap(bvh)) :
        NodeAt(Unwrap(bvh), b).kind = "Branch" =>
            \A id \in LeavesOf(Subtree(Unwrap(bvh), b)) :
                Grow(NodeAt(Unwrap(bvh), b).bounding_box, BoundingBox(ObjectAt(objects, id)))
                    = NodeAt(Unwrap(bvh), b).bounding_box

\* C23: with the BVH built from the n >= 1 objects of the scene, every object
\* whose own box passes Aabb.hit for the ray and the interval is among the ids
\* Bvh.hit returns, no id is returned twice, and the box of every branch encloses
\* the boxes of the leaves below it
C23_NothingHittablePruned ==
    (Fresh /\ objects # <<>> /\ IsSome(last)) =>
        LET tested == Unwrap(last).tested
        IN  /\ BoxPassed \subseteq {tested[i] : i \in 1..Len(tested)}
            /\ \A i, j \in 1..Len(tested) : tested[i] = tested[j] => i = j
            /\ tested = (LET ids == BvhHit(Unwrap(bvh), Unwrap(last).ray, Unwrap(last).time)
                         IN  IF ids = None THEN <<>> ELSE Unwrap(ids))
            /\ BranchesEnclose

\* a query over three objects that dropped some of them and kept those whose
\* box the ray passes
C23_Witness ==
    /\ Fresh
    /\ Len(objects) = 3
    /\ IsSome(last)
    /\ BoxPassed # {}
    /\ Len(Unwrap(last).tested) \in {1, 2}

----------------------------------------------------------------------------
(* The order of a render *)

\* the pixel (x, y) is among the pixels written
Written(x, y) ==
    \E j \in 1..Len(render.written) : render.written[j].x = x /\ render.written[j].y = y

\* C24: render makes its callbacks with y = 0, 1, ... in this order, at most one
\* for a row and one for every row once it has returned; the row of a callback
\* has all its image_width pixels written before; no pixel is written twice and
\* every pixel is written once render has returned; a pixel is written from
\* sample_count samples and every channel of the image is in 0..255
C24_RenderOrder ==
    render.pc # "idle" =>
        LET camera == Unwrap(render.camera)
            image == Unwrap(render.image)
            written == render.written
            callbacks == render.callbacks
        IN  /\ \A i \in 1..Len(callbacks) : callbacks[i] = i - 1
            /\ Len(callbacks) <= camera.image_height
            /\ \A i \in 1..Len(callbacks) :
                   \A x \in 0..(camera.image_width - 1) : Written(x, callbacks[i])
            /\ \A j, k \in 1..Len(written) :
                   (written[j].x = written[k].x /\ written[j].y = written[k].y) => j = k
            /\ \A j \in 1..Len(written) :
                   /\ written[j].x \in 0..(camera.image_width - 1)
                   /\ written[j].y \in 0..(camera.image_height - 1)
                   /\ written[j].samples = camera.sample_count
            /\ \A i \in 1..Len(image.data) : image.data[i] \in 0..255
            /\ render.pc = "done" =>
                   /\ Len(callbacks) = camera.image_height
                   /\ Len(written) = camera.image_width * camera.image_height
                   /\ \A x \in 0..(camera.image_width - 1), y \in 0..(camera.image_height - 1) :
                          Written(x, y)

\* a render of two rows of two pixels with two samples has returned, with a
\* channel cut at 255, one cut at 0 from a negative sum, and one in between
C24_Witness ==
    /\ render.pc = "done"
    /\ Unwrap(render.camera) = Camera(2, 2, 2)
    /\ render.callbacks = <<0, 1>>
    /\ Len(render.written) = 4
    /\ \E i \in 1..12 : Unwrap(render.image).data[i] = 255
    /\ \E i \in 1..12 : Unwrap(render.image).data[i] = 127
    /\ Unwrap(render.image).data[2] = 0

====
